---- MODULE Spec2Model ----
(***************************************************************************)
(* The object protocol of vm/src/protocol/object.rs as a state machine,    *)
(* and import_code_obj of vm/src/import.rs.                                *)
(*                                                                         *)
(* The protocol functions are re-entrant: they call hooks published by     *)
(* classes, and a hook may call back into the protocol.  The model keeps   *)
(* an explicit call stack of frames; one action is one basic block of a    *)
(* protocol function, from the point where it gets control (its start, or  *)
(* the return of a hook it called) to the point where it gives control     *)
(* away (the next hook call, or its return).                               *)
(***************************************************************************)
EXTENDS Integers, Sequences, FiniteSets, TLC

VARIABLES
    depth,   \* vm.recursion_depth, the counter behind vm.with_recursion
    stack,   \* the call stack: protocol frames and hook frames
    ret,     \* the last top-level call that returned, with its result
    inst,    \* the object the attribute calls are made on, with its class
    store,   \* the contents of inst's instance storage (self.dict())
    hist,    \* the last two attribute calls whose result was taken, oldest first
    sys_modules  \* the module cache, sys.modules

vars == <<depth, stack, ret, inst, store, hist, sys_modules>>

\* vm.recursion_limit: the depth at which with_recursion refuses a call.
RecursionLimit == 3

----------------------------------------------------------------------------
(* Results.  PyResult<T>: Ok(v) or Err(e); a comparison hook may also      *)
(* return the not-implemented sentinel.                                    *)

NoRes == [k |-> "none", v |-> "none"]
Ok(v) == [k |-> "ok", v |-> v]
Err(e) == [k |-> "err", v |-> e]
NotImplemented == [k |-> "ni", v |-> "none"]

BoolStr(b) == IF b THEN "true" ELSE "false"

----------------------------------------------------------------------------
(* Frames.  x, y, z are the arguments; loc is the frame's local flag and i *)
(* its loop index; rv is the result of the call the frame is waiting for;  *)
(* g says that the frame runs inside vm.with_recursion; d0 is the counter  *)
(* when the call was made and s0 the instance storage then; log lists the  *)
(* calls the frame made, with their results.                               *)

Frame(fn, x, y, z, g) ==
    [fn |-> fn, pc |-> "start", x |-> x, y |-> y, z |-> z, loc |-> FALSE, i |-> 0,
     rv |-> NoRes, g |-> g, d0 |-> depth, s0 |-> store, log |-> <<>>]

Ev(who, x, y, z) == [who |-> who, x |-> x, y |-> y, z |-> z, res |-> NoRes]

EmptyStore == [n |-> "absent", m |-> "absent"]

NoCall ==
    [fn |-> "none", x |-> "none", y |-> "none", z |-> "none",
     res |-> NoRes, d0 |-> 0, s0 |-> EmptyStore, log |-> <<>>]

NoHist == [fn |-> "none", name |-> "none", val |-> "none", res |-> NoRes]

Top == stack[Len(stack)]

Running(fn, pc) == stack # <<>> /\ Top.fn = fn /\ Top.pc = pc

----------------------------------------------------------------------------
(* The recursion guard, vm.with_recursion(where, f): refuse when the       *)
(* counter has reached the limit, else count up, run f, count down on      *)
(* every way out of f.                                                      *)

CheckRecursiveCall(d) == d < RecursionLimit

WithRecursionEnter(d) == d + 1

WithRecursionExit_Forgets(d) == d

WithRecursionExit(d) == d - 1

\* The caller's frame takes the result of the call it was waiting for.
Deliver(f, r) ==
    [f EXCEPT !.rv = r,
              !.log = IF Len(@) > 0 THEN [@ EXCEPT ![Len(@)].res = r] ELSE @]

\* The top frame returns r to its caller, or ends the top-level call.
Return(r) ==
    LET f == Top
        rest == SubSeq(stack, 1, Len(stack) - 1)
    IN  /\ depth' = IF f.g THEN WithRecursionExit(depth) ELSE depth
        /\ IF rest = <<>>
           THEN /\ stack' = <<>>
                /\ ret' = [fn |-> f.fn, x |-> f.x, y |-> f.y, z |-> f.z,
                           res |-> r, d0 |-> f.d0, s0 |-> f.s0, log |-> f.log]
           ELSE /\ stack' = [rest EXCEPT ![Len(rest)] = Deliver(@, r)]
                /\ ret' = ret

\* The top frame becomes f2 and calls callee directly.
Call(f2, callee) ==
    /\ stack' = [stack EXCEPT ![Len(stack)] = f2] \o <<callee>>
    /\ depth' = depth
    /\ ret' = ret

\* vm.with_recursion(.., || callee)?: the top frame becomes f2 and calls
\* callee under the guard; a refused call is returned to the caller.
CallGuarded(f2, callee) ==
    IF CheckRecursiveCall(depth)
    THEN /\ stack' = [stack EXCEPT ![Len(stack)] = f2] \o <<[callee EXCEPT !.g = TRUE]>>
         /\ depth' = WithRecursionEnter(depth)
         /\ ret' = ret
    ELSE Return(Err("RecursionError"))

----------------------------------------------------------------------------
(* Comparison: the classes and objects compared.                           *)
(*                                                                         *)
(* A class is [own, parent]: own is what its richcompare slot does, or     *)
(* "inherit" when the class leaves the slot empty; parent is "none" for a  *)
(* class derived from object alone, else it names the base class           *)
(* [own |-> parent, parent |-> "none"].                                    *)

CmpBehaviours == {"ni", "true", "false", "err", "rec"}

CmpBaseClasses == [own : CmpBehaviours, parent : {"none"}]

CmpDerivedClasses == [own : CmpBehaviours \cup {"inherit"}, parent : CmpBehaviours]

CmpClasses == CmpBaseClasses \cup CmpDerivedClasses

CmpObjs == [cls : CmpClasses, id : {1, 2}]

CmpOps == {"Lt", "Le", "Eq", "Ne", "Gt", "Ge"}

\* The method resolution order of a class, without object.
Mro(c) ==
    IF c.parent = "none" THEN <<c>> ELSE <<c, [own |-> c.parent, parent |-> "none"]>>

FastIsSubclass(c, d) == \E i \in 1..Len(Mro(c)) : Mro(c)[i] = d

\* cls.mro_find_map(|cls| cls.slots.richcompare.load()).unwrap()
RichcompareSlot(c) ==
    IF c.own # "inherit" THEN c.own ELSE Mro(c)[2].own

\* PyComparisonOp::swapped
Swapped(op) ==
    CASE op = "Lt" -> "Gt"
      [] op = "Gt" -> "Lt"
      [] op = "Le" -> "Ge"
      [] op = "Ge" -> "Le"
      [] OTHER -> op

\* self.is(other)
Is(a, b) == a = b

IsStrictSubclass_Reversed(a, b) ==
    ~Is(a.cls, b.cls) /\ FastIsSubclass(a.cls, b.cls)

\* _cmp: is_strict_subclass, with self = a and other = b
IsStrictSubclass(a, b) ==
    ~Is(a.cls, b.cls) /\ FastIsSubclass(b.cls, a.cls)

CmpFallback_NoIdentity(a, b, op) ==
    CASE op = "Eq" -> Ok("false")
      [] op = "Ne" -> Ok("true")
      [] OTHER -> Err("Unorderable")

\* _cmp: the match on op after every attempt returned not-implemented
CmpFallback(a, b, op) ==
    CASE op = "Eq" -> Ok(BoolStr(Is(a, b)))
      [] op = "Ne" -> Ok(BoolStr(~Is(a, b)))
      [] OTHER -> Err("Unorderable")

CmpHookFrame(x, y, z) == Frame("cmp_hook", x, y, z, FALSE)

CmpCallHook_LateGuard(f2, who) ==
    LET a == IF who = "fwd" THEN f2.x ELSE f2.y
        b == IF who = "fwd" THEN f2.y ELSE f2.x
        op == IF who = "fwd" THEN f2.z ELSE Swapped(f2.z)
    IN  IF depth <= RecursionLimit
        THEN /\ stack' = [stack EXCEPT ![Len(stack)] =
                              [f2 EXCEPT !.log = Append(@, Ev(who, a, b, op))]]
                          \o <<[CmpHookFrame(a, b, op) EXCEPT !.g = TRUE]>>
             /\ depth' = depth + 1
             /\ ret' = ret
        ELSE Return(Err("RecursionError"))

\* _cmp: vm.with_recursion("in comparison", || call_cmp(..))?, forward
\* (self, other, op) or reflected (other, self, swapped)
CmpCallHook(f2, who) ==
    LET a == IF who = "fwd" THEN f2.x ELSE f2.y
        b == IF who = "fwd" THEN f2.y ELSE f2.x
        op == IF who = "fwd" THEN f2.z ELSE Swapped(f2.z)
    IN  CallGuarded([f2 EXCEPT !.log = IF CheckRecursiveCall(depth)
                                       THEN Append(@, Ev(who, a, b, op)) ELSE @],
                    CmpHookFrame(a, b, op))

AttrUnchanged == UNCHANGED <<inst, store, hist, sys_modules>>

\* No call is running and the last result has been taken.
Idle == stack = <<>> /\ ret.fn = "none"

\* A top-level compare(a, b, op).
CallCompare ==
    /\ Idle
    /\ \E a \in CmpObjs, b \in CmpObjs, op \in CmpOps :
          stack' = <<Frame("cmp", a, b, op, FALSE)>>
    /\ UNCHANGED <<depth, ret>>
    /\ AttrUnchanged

\* The caller of a top-level compare takes its result.
TakeCmpResult ==
    /\ stack = <<>>
    /\ ret.fn = "cmp"
    /\ ret' = NoCall
    /\ UNCHANGED <<depth, stack>>
    /\ AttrUnchanged

\* _cmp from its start to the first hook call.
CmpStart ==
    /\ Running("cmp", "start")
    /\ IF IsStrictSubclass(Top.x, Top.y)
       THEN CmpCallHook([Top EXCEPT !.pc = "refl_first"], "refl")
       ELSE CmpCallHook([Top EXCEPT !.pc = "fwd"], "fwd")
    /\ AttrUnchanged

\* _cmp after the reflected attempt made first (the subclass branch).
CmpAfterReflectedFirst ==
    /\ Running("cmp", "refl_first")
    /\ CASE Top.rv.k = "err" -> Return(Top.rv)
         [] Top.rv.k = "ok" -> Return(Top.rv)
         [] OTHER -> CmpCallHook([Top EXCEPT !.pc = "fwd", !.loc = TRUE, !.rv = NoRes], "fwd")
    /\ AttrUnchanged

CmpAfterForward_ForgetsReflected ==
    /\ Running("cmp", "fwd")
    /\ CASE Top.rv.k = "err" -> Return(Top.rv)
         [] Top.rv.k = "ok" -> Return(Top.rv)
         [] OTHER -> CmpCallHook([Top EXCEPT !.pc = "refl_last", !.rv = NoRes], "refl")
    /\ AttrUnchanged

\* _cmp after the forward attempt.
CmpAfterForward ==
    /\ Running("cmp", "fwd")
    /\ CASE Top.rv.k = "err" -> Return(Top.rv)
         [] Top.rv.k = "ok" -> Return(Top.rv)
         [] Top.loc -> Return(CmpFallback(Top.x, Top.y, Top.z))
         [] OTHER -> CmpCallHook([Top EXCEPT !.pc = "refl_last", !.rv = NoRes], "refl")
    /\ AttrUnchanged

\* _cmp after the reflected attempt made last.
CmpAfterReflectedLast ==
    /\ Running("cmp", "refl_last")
    /\ CASE Top.rv.k = "err" -> Return(Top.rv)
         [] Top.rv.k = "ok" -> Return(Top.rv)
         [] OTHER -> Return(CmpFallback(Top.x, Top.y, Top.z))
    /\ AttrUnchanged

\* A richcompare hook that answers at once: a boolean, not-implemented or
\* an error of its own.
CmpHookAnswer ==
    /\ Running("cmp_hook", "start")
    /\ LET h == RichcompareSlot(Top.x.cls)
       IN  /\ h # "rec"
           /\ Return(CASE h = "ni" -> NotImplemented
                       [] h = "err" -> Err("HookError")
                       [] OTHER -> Ok(h))
    /\ AttrUnchanged

\* A richcompare hook that re-invokes compare on its own operands.
CmpHookRecurse ==
    /\ Running("cmp_hook", "start")
    /\ RichcompareSlot(Top.x.cls) = "rec"
    /\ Call([Top EXCEPT !.pc = "ret"], Frame("cmp", Top.x, Top.y, Top.z, FALSE))
    /\ AttrUnchanged

\* ... and returns what that compare returned.
CmpHookRecReturn ==
    /\ Running("cmp_hook", "ret")
    /\ Return(Top.rv)
    /\ AttrUnchanged

NextCmp ==
    \/ CallCompare
    \/ TakeCmpResult
    \/ CmpStart
    \/ CmpAfterReflectedFirst
    \/ CmpAfterForward
    \/ CmpAfterReflectedLast
    \/ CmpHookAnswer
    \/ CmpHookRecurse
    \/ CmpHookRecReturn

----------------------------------------------------------------------------
(* Attributes: the object the calls are made on.                           *)
(*                                                                         *)
(* Two names are used: "n", which the class of the object may define, and  *)
(* "m", which no class defines.  A class attribute is [get, set]: what the *)
(* descr_get and descr_set slots of the attribute's own class do, "none"   *)
(* for an empty slot; a get hook that is "rec" reads the attribute it is   *)
(* the hook of, on the same object, again.  The object's class defines "n" *)
(* itself (own), or its base class does (inh), or both, or neither.  slots *)
(* says which of the getattro / setattro slots the class's MRO publishes;  *)
(* dict, whether the object has instance storage.                          *)

NoAttr == [get |-> "absent", set |-> "absent"]

ClassAttrs == [get : {"none", "ret", "err", "rec"}, set : {"none", "ok", "err"}]

InheritedAttrs ==
    {[get |-> "none", set |-> "none"], [get |-> "ret", set |-> "ok"],
     [get |-> "ret", set |-> "none"]}

NoObject == [slots |-> "none", own |-> NoAttr, inh |-> NoAttr, dict |-> FALSE]

AttrObjs ==
    [slots : {"generic"}, own : ClassAttrs \cup {NoAttr},
     inh : InheritedAttrs \cup {NoAttr}, dict : BOOLEAN]
    \cup [slots : {"noset", "nogetset"}, own : {NoAttr}, inh : {NoAttr}, dict : BOOLEAN]

AttrNames == {"n", "m"}

AttrValues == {"v1", "v2"}

\* obj_cls.get_attr(name) / self.get_class_attr(name): the first class in
\* the MRO that defines the name, as [id, get, set], id "none" when no
\* class does.
ClassAttr(o, name) ==
    CASE name = "n" /\ o.own # NoAttr -> [id |-> "own", get |-> o.own.get, set |-> o.own.set]
      [] name = "n" /\ o.inh # NoAttr -> [id |-> "inh", get |-> o.inh.get, set |-> o.inh.set]
      [] OTHER -> [id |-> "none", get |-> "none", set |-> "none"]

\* self.dict(): the instance storage, if the object has one
HasDict(o) == o.dict

\* dict.get_item_opt(name)
DictGet(d, name) == IF name = "n" THEN d.n ELSE d.m

\* dict.set_item(name, value)
DictSet(d, name, v) == IF name = "n" THEN [d EXCEPT !.n = v] ELSE [d EXCEPT !.m = v]

\* dict.del_item(name), on a key that is there
DictDel(d, name) == DictSet(d, name, "absent")

HistUnchanged == UNCHANGED <<inst, hist, sys_modules>>

\* An object is made, with whatever its storage holds at first.
NewObject ==
    /\ Idle
    /\ inst = NoObject
    /\ inst' \in AttrObjs
    /\ \E v \in {"absent", "v0"} :
          store' = IF HasDict(inst') THEN [EmptyStore EXCEPT !.n = v] ELSE EmptyStore
    /\ UNCHANGED <<depth, stack, ret, hist, sys_modules>>

\* A top-level get_attr(inst, name).
CallGetAttr ==
    /\ Idle
    /\ inst # NoObject
    /\ \E name \in AttrNames : stack' = <<Frame("get_attr", "inst", name, "none", FALSE)>>
    /\ UNCHANGED <<depth, ret, store>>
    /\ HistUnchanged

\* A top-level set_attr(inst, name, value) or del_attr(inst, name).
CallSetAttr ==
    /\ Idle
    /\ inst # NoObject
    /\ \E name \in AttrNames, v \in AttrValues \cup {"DELETE"} :
          stack' = <<Frame("set_attr", "inst", name, v, FALSE)>>
    /\ UNCHANGED <<depth, ret, store>>
    /\ HistUnchanged

\* The caller of a top-level attribute call takes its result.
TakeAttrResult ==
    /\ stack = <<>>
    /\ ret.fn \in {"get_attr", "set_attr"}
    /\ hist' = <<hist[2], [fn |-> ret.fn, name |-> ret.y, val |-> ret.z, res |-> ret.res]>>
    /\ ret' = NoCall
    /\ UNCHANGED <<depth, stack, inst, store, sys_modules>>

DescrHookFrame(fn, attr, value) == Frame(fn, attr, "inst", value, FALSE)

IsData_GetOnly(attr) == attr.get # "none"

IsData_Inverted(attr) == attr.get # "none" /\ attr.set = "none"

\* generic_getattr_opt: the attribute's class has descr_get and descr_set
IsData(attr) == attr.get # "none" /\ attr.set # "none"

GetAttrLogged(f, attr) == [f EXCEPT !.log = Append(@, Ev("descr_get", attr.id, "inst", "class"))]

GetAttr_RawClassAttr ==
    /\ Running("get_attr", "start")
    /\ LET name == Top.y
           attr == ClassAttr(inst, name)
           found == IF HasDict(inst) THEN DictGet(store, name) ELSE "absent"
       IN  CASE inst.slots = "nogetset" -> Return([k |-> "panic", v |-> "unwrap"])
             [] inst.slots # "nogetset" /\ attr.id # "none" /\ IsData(attr) ->
                    Call(GetAttrLogged([Top EXCEPT !.pc = "descr_get"], attr),
                         DescrHookFrame("descr_get", attr, "none"))
             [] OTHER ->
                    IF found # "absent" THEN Return(Ok(found))
                    ELSE IF attr.id = "none" THEN Return(Err("AttributeError"))
                    ELSE Return(Ok(attr.id))
    /\ UNCHANGED store
    /\ HistUnchanged

\* get_attr_inner and generic_getattr (generic_getattr_opt) up to the
\* descriptor's get hook, or to the result when no hook is called.
GetAttr ==
    /\ Running("get_attr", "start")
    /\ LET name == Top.y
           attr == ClassAttr(inst, name)
           found == IF HasDict(inst) THEN DictGet(store, name) ELSE "absent"
       IN  CASE inst.slots = "nogetset" -> Return([k |-> "panic", v |-> "unwrap"])
             [] inst.slots # "nogetset" /\ attr.id # "none" /\ IsData(attr) ->
                    Call(GetAttrLogged([Top EXCEPT !.pc = "descr_get"], attr),
                         DescrHookFrame("descr_get", attr, "none"))
             [] OTHER ->
                    IF found # "absent" THEN Return(Ok(found))
                    ELSE IF attr.id = "none" THEN Return(Err("AttributeError"))
                    ELSE IF attr.get # "none"
                         THEN Call(GetAttrLogged([Top EXCEPT !.pc = "descr_get"], attr),
                                   DescrHookFrame("descr_get", attr, "none"))
                         ELSE Return(Ok(attr.id))
    /\ UNCHANGED store
    /\ HistUnchanged

\* generic_getattr_opt: descr_get(..).map(Some)
GetAttrAfterDescrGet ==
    /\ Running("get_attr", "descr_get")
    /\ Return(Top.rv)
    /\ UNCHANGED store
    /\ HistUnchanged

\* The nesting of calls that is followed: a get hook that reads its own
\* attribute again nests without end, the code sets no bound to it.
MaxNesting == 9

\* A descriptor's get hook that calls get_attr on the same object and name.
DescrGetHookRecurse ==
    /\ Running("descr_get", "start")
    /\ Top.x.get = "rec"
    /\ Len(stack) < MaxNesting
    /\ Call([Top EXCEPT !.pc = "ret"], Frame("get_attr", "inst", "n", "none", FALSE))
    /\ UNCHANGED store
    /\ HistUnchanged

\* A descriptor's get hook: it returns its value, or fails.
DescrGetHook ==
    /\ Running("descr_get", "start")
    /\ Top.x.get # "rec"
    /\ Return(IF Top.x.get = "ret" THEN Ok(IF Top.x.id = "own" THEN "hv_own" ELSE "hv_inh")
              ELSE Err("HookError"))
    /\ UNCHANGED store
    /\ HistUnchanged

\* call_set_attr: the message of the TypeError, "'C' object has {no |
\* only read-only} attributes ({assign to | del} name)"
SetattroMessage(hasGetattr, isAssign) ==
    CASE hasGetattr /\ isAssign -> "TypeError: only read-only attributes (assign to)"
      [] hasGetattr /\ ~isAssign -> "TypeError: only read-only attributes (del)"
      [] ~hasGetattr /\ isAssign -> "TypeError: no attributes (assign to)"
      [] OTHER -> "TypeError: no attributes (del)"

\* call_set_attr: the error when no class in the MRO has a setattro slot
NoSetattroError(o, value) ==
    Err(SetattroMessage(o.slots = "noset", value # "DELETE"))

SetInDict_KeyError(name, value) ==
    IF value # "DELETE" THEN Ok("unit")
    ELSE IF DictGet(store, name) = "absent" THEN Err("KeyError") ELSE Ok("unit")

\* generic_setattr: the result of the branch that has instance storage
SetInDict(name, value) ==
    IF value # "DELETE" THEN Ok("unit")
    ELSE IF DictGet(store, name) = "absent" THEN Err("AttributeError") ELSE Ok("unit")

StoreAfterSet_NoWrite(o, attr, name, value) ==
    IF attr.id # "none" /\ attr.set # "none" THEN store
    ELSE IF ~HasDict(o) THEN store
    ELSE IF value # "DELETE" THEN store
    ELSE DictDel(store, name)

StoreAfterSet_Always(o, attr, name, value) ==
    IF ~HasDict(o) THEN store
    ELSE IF value # "DELETE" THEN DictSet(store, name, value)
    ELSE DictDel(store, name)

\* generic_setattr: the instance storage after the call's own writes
StoreAfterSet(o, attr, name, value) ==
    IF attr.id # "none" /\ attr.set # "none" THEN store
    ELSE IF ~HasDict(o) THEN store
    ELSE IF value # "DELETE" THEN DictSet(store, name, value)
    ELSE DictDel(store, name)

NoDictError_TypeError(o, value) ==
    Err(SetattroMessage(FALSE, value # "DELETE"))

\* generic_setattr: the error when the object has no instance storage
NoDictError(o, value) == Err("AttributeError")

HasDescrSet_DataOnly(attr) == attr.id # "none" /\ attr.set # "none" /\ attr.get # "none"

\* generic_setattr: the class attribute's class has a descr_set slot
HasDescrSet(attr) == attr.id # "none" /\ attr.set # "none"

\* call_set_attr and generic_setattr up to the descriptor's set hook, or to
\* the result when no hook is called.
SetAttr ==
    /\ Running("set_attr", "start")
    /\ LET name == Top.y
           value == Top.z
           attr == ClassAttr(inst, name)
       IN  CASE inst.slots # "generic" ->
                    Return(NoSetattroError(inst, value)) /\ UNCHANGED store
             [] inst.slots = "generic" /\ HasDescrSet(attr) ->
                    /\ Call([Top EXCEPT !.pc = "descr_set",
                                        !.log = Append(@, Ev("descr_set", attr.id, "inst", value))],
                            DescrHookFrame("descr_set", attr, value))
                    /\ store' = StoreAfterSet(inst, attr, name, value)
             [] OTHER ->
                    /\ Return(IF HasDict(inst) THEN SetInDict(name, value)
                              ELSE NoDictError(inst, value))
                    /\ store' = StoreAfterSet(inst, attr, name, value)
    /\ HistUnchanged

\* generic_setattr: return descriptor(&attr, self, value, vm)
SetAttrAfterDescrSet ==
    /\ Running("set_attr", "descr_set")
    /\ Return(Top.rv)
    /\ UNCHANGED store
    /\ HistUnchanged

\* A descriptor's set hook: it accepts the value or the deletion (and
\* keeps it where it likes, not in the instance storage), or fails.
DescrSetHook ==
    /\ Running("descr_set", "start")
    /\ Return(IF Top.x.set = "ok" THEN Ok("unit") ELSE Err("HookError"))
    /\ UNCHANGED store
    /\ HistUnchanged

NextAttr ==
    \/ NewObject
    \/ CallGetAttr
    \/ CallSetAttr
    \/ TakeAttrResult
    \/ GetAttr
    \/ GetAttrAfterDescrGet
    \/ DescrGetHook
    \/ SetAttr
    \/ SetAttrAfterDescrSet
    \/ DescrSetHook
    \/ DescrGetHookRecurse

----------------------------------------------------------------------------
(* Type relationships: the objects asked about.                            *)
(*                                                                         *)
(* An object is [k, h], kind and name:                                     *)
(*   builtin  type, object, tuple                                          *)
(*   cls      ordinary classes: B derives from A; U; Abs; TupH derives     *)
(*            from tuple and publishes the check hooks                     *)
(*   meta     a metaclass that publishes __instancecheck__ and             *)
(*            __subclasscheck__ hooks behaving as h says                   *)
(*   mcls     a class whose class is the metaclass h                       *)
(*   minst    an instance of the class mcls h                              *)
(*   obj      instances a (of A), b (of B), u, p, pe (of U); p declares    *)
(*            __class__ B, reading pe's __class__ fails; le is an instance *)
(*            of L, where looking up a check hook fails                    *)
(*   tup      tuples of candidates; tuph is an instance of TupH            *)
(*   abs      instances of Abs that carry (or lack) a __bases__ attribute  *)
(*   absinst  instances of Abs that declare a __class__ that is no type    *)

T(k, h) == [k |-> k, h |-> h]

HookBehaviours == {"true", "false", "truthy", "err", "rec", "badbool"}

AbsNames == {"x0", "x1", "y2", "w", "c1", "c2", "nb", "nbs", "nbo", "nt", "xn"}

TupNames == {"t0", "tU", "tUA", "tAU", "tNest", "tM"}

TObjs ==
    {T("builtin", h) : h \in {"type", "object", "tuple"}}
    \cup {T("cls", h) : h \in {"A", "B", "U", "L", "Abs", "TupH"}}
    \cup {T(k, h) : k \in {"meta", "mcls", "minst"}, h \in HookBehaviours}
    \cup {T("obj", h) : h \in {"a", "b", "u", "p", "pe", "le"}}
    \cup {T("tup", h) : h \in TupNames}
    \cup {T("tuph", "th")}
    \cup {T("abs", h) : h \in AbsNames}
    \cup {T("absinst", h) : h \in {"ia", "inone"}}

TypeType == T("builtin", "type")

NoneObject == T("builtin", "None")

\* obj.class()
TClassOf(x) ==
    CASE x.k \in {"builtin", "cls", "meta"} -> TypeType
      [] x.k = "mcls" -> T("meta", x.h)
      [] x.k = "minst" -> T("mcls", x.h)
      [] x.k = "obj" -> (CASE x.h = "a" -> T("cls", "A")
                           [] x.h = "b" -> T("cls", "B")
                           [] x.h = "le" -> T("cls", "L")
                           [] OTHER -> T("cls", "U"))
      [] x.k = "tup" -> T("builtin", "tuple")
      [] x.k = "tuph" -> T("cls", "TupH")
      [] OTHER -> T("cls", "Abs")

\* obj.try_to_ref::<PyType>(vm).is_ok()
TIsType(x) == x.k \in {"builtin", "cls", "meta", "mcls"}

\* cls.try_to_ref::<PyTuple>(vm).is_ok(): a tuple or an instance of a
\* subclass of tuple
TIsTuple(x) == x.k \in {"tup", "tuph"}

\* The elements of a tuple.
TElems(x) ==
    CASE x.h = "t0" -> <<>>
      [] x.h = "tU" -> <<T("cls", "U")>>
      [] x.h = "tUA" -> <<T("cls", "U"), T("cls", "A")>>
      [] x.h = "tAU" -> <<T("cls", "A"), T("cls", "U")>>
      [] x.h = "tNest" -> <<T("tup", "tU"), T("cls", "B")>>
      [] x.h = "tM" -> <<T("cls", "U"), T("mcls", "false"), T("mcls", "truthy")>>
      [] OTHER -> <<T("cls", "U")>>

\* The base classes of a type.
TBases(t) ==
    CASE t = T("builtin", "object") -> <<>>
      [] t.k = "meta" -> <<TypeType>>
      [] t = T("cls", "B") -> <<T("cls", "A")>>
      [] t = T("cls", "TupH") -> <<T("builtin", "tuple")>>
      [] OTHER -> <<T("builtin", "object")>>

\* typ.fast_issubclass(cls): cls is in typ's method resolution order
RECURSIVE TFastIsSubclass(_, _)
TFastIsSubclass(t, c) ==
    \/ t = c
    \/ \E i \in 1..Len(TBases(t)) : TFastIsSubclass(TBases(t)[i], c)

\* obj.get_attr("__bases__"): [k, v, tuple], v the bases when k is "ok"
\* and tuple says whether they come as a tuple
BasesOk(seq) == [k |-> "ok", v |-> seq, tuple |-> TRUE]

BasesErr(e) == [k |-> "err", v |-> e, tuple |-> FALSE]

GetBases(x) ==
    CASE TIsType(x) -> BasesOk(TBases(x))
      [] x.k = "abs" ->
            (CASE x.h = "x0" -> BasesOk(<<>>)
               [] x.h = "w" -> BasesOk(<<>>)
               [] x.h = "x1" -> BasesOk(<<T("abs", "x0")>>)
               [] x.h = "y2" -> BasesOk(<<T("abs", "x0"), T("abs", "w")>>)
               [] x.h = "c1" -> BasesOk(<<T("abs", "c2")>>)
               [] x.h = "c2" -> BasesOk(<<T("abs", "c1")>>)
               [] x.h = "xn" -> BasesOk(<<T("abs", "nb")>>)
               [] x.h = "nt" -> [k |-> "ok", v |-> <<>>, tuple |-> FALSE]
               [] x.h = "nbs" -> BasesErr("AttributeErrorSubclass")
               [] x.h = "nbo" -> BasesErr("OtherError")
               [] OTHER -> BasesErr("AttributeError"))
      [] OTHER -> BasesErr("AttributeError")

\* obj.get_attr("__class__"): the declared class
GetDeclaredClass(x) ==
    CASE x = T("obj", "p") -> Ok(T("cls", "B"))
      [] x = T("obj", "pe") -> Err("OtherError")
      [] x = T("absinst", "ia") -> Ok(T("abs", "x1"))
      [] x = T("absinst", "inone") -> Ok(NoneObject)
      [] OTHER -> Ok(TClassOf(x))

\* vm.get_special_method(cls, __instancecheck__ / __subclasscheck__): what
\* the method found on cls's class does; "default" is type's own method,
\* "none" no method.
CheckHook(cls) ==
    CASE cls.k = "mcls" -> cls.h
      [] cls.k = "tuph" -> "true"
      [] cls = T("obj", "le") -> "lookup_err"
      [] TIsType(cls) -> "default"
      [] OTHER -> "none"

\* ret.try_to_bool(vm)
TryToBool(v) ==
    CASE v \in {"true", "truthy"} -> Ok("true")
      [] v \in {"false", "falsy"} -> Ok("false")
      [] OTHER -> Err("BoolError")

NotAClass(arg) ==
    IF arg = "isinstance 2" THEN "TypeError: isinstance() arg 2 must be a type or tuple of types"
    ELSE IF arg = "issubclass 1" THEN "TypeError: issubclass() arg 1 must be a class"
    ELSE "TypeError: issubclass() arg 2 must be a class, a tuple of classes, or a union"

CheckCls_MasksAll(cls, arg) ==
    IF GetBases(cls).k = "ok" THEN Ok("bases") ELSE Err(NotAClass(arg))

\* check_cls(cls, msg): read __bases__, an AttributeError becomes the
\* TypeError msg, any other error is kept
CheckCls(cls, arg) ==
    LET b == GetBases(cls)
    IN  IF b.k = "ok" THEN Ok("bases")
        ELSE IF b.v = "AttributeError" THEN Err(NotAClass(arg))
        ELSE Err(b.v)

AbstractIsinstanceOfType_DirectOnly(o, cls) ==
    Ok(BoolStr(TFastIsSubclass(TClassOf(o), cls)))

\* abstract_isinstance, cls a type: the class of the object, then its
\* declared class
AbstractIsinstanceOfType(o, cls) ==
    IF TFastIsSubclass(TClassOf(o), cls) THEN Ok("true")
    ELSE LET d == GetDeclaredClass(o)
         IN  IF d.k = "err" THEN d
             ELSE IF d.v # NoneObject /\ TIsType(d.v)
                  THEN IF d.v = TClassOf(o) THEN Ok("false")
                       ELSE Ok(BoolStr(TFastIsSubclass(d.v, cls)))
                  ELSE Ok("false")

TypeUnchanged == UNCHANGED <<inst, store, hist, sys_modules>>

\* A top-level is_instance(o, cls).
CallIsInstance ==
    /\ Idle
    /\ \E o \in TObjs, cls \in TObjs : stack' = <<Frame("is_instance", o, cls, "none", FALSE)>>
    /\ UNCHANGED <<depth, ret>>
    /\ TypeUnchanged

\* A top-level is_subclass(x, cls).
CallIsSubclass ==
    /\ Idle
    /\ \E x \in TObjs, cls \in TObjs : stack' = <<Frame("is_subclass", x, cls, "none", FALSE)>>
    /\ UNCHANGED <<depth, ret>>
    /\ TypeUnchanged

\* The caller of a top-level type query takes its result.
TakeTypeResult ==
    /\ stack = <<>>
    /\ ret.fn \in {"is_instance", "is_subclass"}
    /\ ret' = NoCall
    /\ UNCHANGED <<depth, stack>>
    /\ TypeUnchanged

\* is_instance / is_subclass: the next element of the tuple, tested under
\* the guard; f.fn is the function, f.i the elements tested so far
TestNextElem(f) ==
    LET typ == TElems(f.y)[f.i + 1]
    IN  CallGuarded([f EXCEPT !.pc = "elem", !.i = @ + 1, !.rv = NoRes,
                              !.log = IF CheckRecursiveCall(depth)
                                      THEN Append(@, Ev("elem", f.x, typ, f.i + 1)) ELSE @],
                    Frame(f.fn, f.x, typ, "none", FALSE))

\* is_instance / is_subclass: the check hook, called under the guard
CallCheckHook(f, hook) ==
    CallGuarded([f EXCEPT !.pc = "hook",
                          !.log = IF CheckRecursiveCall(depth)
                                  THEN Append(@, Ev(hook, f.y, f.x, "none")) ELSE @],
                Frame(hook, f.y, f.x, "none", FALSE))

\* abstract_isinstance, cls no type: check_cls, then the declared class
\* goes through abstract_issubclass
AbstractIsinstanceOfOther(f) ==
    LET chk == CheckCls(f.y, "isinstance 2")
        d == GetDeclaredClass(f.x)
    IN  IF chk.k = "err" THEN Return(chk)
        ELSE IF d.k = "err" THEN Return(d)
        ELSE IF d.v = NoneObject THEN Return(Ok("false"))
        ELSE Call([f EXCEPT !.pc = "abstract"], Frame("abstract_issubclass", d.v, f.y, "none", FALSE))

UsesTypePath_AnyType(cls) == TIsType(cls)

\* is_instance / is_subclass: cls.class().is(vm.ctx.types.type_type)
UsesTypePath(cls) == TClassOf(cls) = TypeType

ExactClass_Never(o, cls) == FALSE

\* is_instance: self.class().is(cls)
ExactClass(o, cls) == TClassOf(o) = cls

\* is_instance from its start to the first call it makes.
IsInstance ==
    /\ Running("is_instance", "start")
    /\ LET o == Top.x
           cls == Top.y
           hook == CheckHook(cls)
       IN  IF ExactClass(o, cls) THEN Return(Ok("true"))
           ELSE IF UsesTypePath(cls) THEN Return(AbstractIsinstanceOfType(o, cls))
           ELSE IF TIsTuple(cls)
                THEN IF TElems(cls) = <<>> THEN Return(Ok("false")) ELSE TestNextElem(Top)
           ELSE IF hook = "lookup_err" THEN Return(Err("LookupError"))
           ELSE IF hook # "none" THEN CallCheckHook(Top, "instancecheck")
           ELSE IF TIsType(cls) THEN Return(AbstractIsinstanceOfType(o, cls))
           ELSE AbstractIsinstanceOfOther(Top)
    /\ TypeUnchanged

AfterElem_LastWins ==
    /\ stack # <<>> /\ Top.fn \in {"is_instance", "is_subclass"} /\ Top.pc = "elem"
    /\ IF Top.rv.k = "err" THEN Return(Top.rv)
       ELSE IF Top.i < Len(TElems(Top.y)) THEN TestNextElem(Top)
       ELSE Return(Top.rv)
    /\ TypeUnchanged

\* is_instance / is_subclass after the test of one tuple element.
AfterElem ==
    /\ stack # <<>> /\ Top.fn \in {"is_instance", "is_subclass"} /\ Top.pc = "elem"
    /\ IF Top.rv.k = "err" THEN Return(Top.rv)
       ELSE IF Top.rv.v = "true" THEN Return(Ok("true"))
       ELSE IF Top.i < Len(TElems(Top.y)) THEN TestNextElem(Top)
       ELSE Return(Ok("false"))
    /\ TypeUnchanged

AfterCheckHookResult_Raw(rv) == rv

\* is_instance / is_subclass: let ret = with_recursion(..)?; ret.try_to_bool(vm)
AfterCheckHookResult(rv) == IF rv.k = "err" THEN rv ELSE TryToBool(rv.v)

\* is_instance / is_subclass after the check hook.
AfterCheckHook ==
    /\ stack # <<>> /\ Top.fn \in {"is_instance", "is_subclass"} /\ Top.pc = "hook"
    /\ Return(AfterCheckHookResult(Top.rv))
    /\ TypeUnchanged

\* abstract_isinstance after abstract_issubclass.
IsInstanceAfterAbstract ==
    /\ Running("is_instance", "abstract")
    /\ Return(Top.rv)
    /\ TypeUnchanged

\* recursive_issubclass: both are types, or the two check_cls and
\* abstract_issubclass; Result::and takes its argument evaluated, so
\* abstract_issubclass runs whatever the checks said.
RecursiveIssubclass(f) ==
    IF TIsType(f.x) /\ TIsType(f.y)
    THEN Return(Ok(BoolStr(TFastIsSubclass(f.x, f.y))))
    ELSE Call([f EXCEPT !.pc = "abstract"], Frame("abstract_issubclass", f.x, f.y, "none", FALSE))

\* is_subclass from its start to the first call it makes.
IsSubclass ==
    /\ Running("is_subclass", "start")
    /\ LET x == Top.x
           cls == Top.y
           hook == CheckHook(cls)
       IN  IF UsesTypePath(cls)
           THEN IF x = cls THEN Return(Ok("true")) ELSE RecursiveIssubclass(Top)
           ELSE IF TIsTuple(cls)
                THEN IF TElems(cls) = <<>> THEN Return(Ok("false")) ELSE TestNextElem(Top)
           ELSE IF hook = "lookup_err" THEN Return(Err("LookupError"))
           ELSE IF hook # "none" THEN CallCheckHook(Top, "subclasscheck")
           ELSE RecursiveIssubclass(Top)
    /\ TypeUnchanged

\* recursive_issubclass: check_cls(self).and(check_cls(cls)).and(abstract_issubclass)
IsSubclassAfterAbstract ==
    /\ Running("is_subclass", "abstract")
    /\ LET c1 == CheckCls(Top.x, "issubclass 1")
           c2 == CheckCls(Top.y, "issubclass 2")
       IN  Return(IF c1.k = "err" THEN c1 ELSE IF c2.k = "err" THEN c2 ELSE Top.rv)
    /\ TypeUnchanged

\* abstract_issubclass: one turn of its loop; x is derived, y is cls.
AbstractIssubclass ==
    /\ Running("abstract_issubclass", "start")
    /\ LET derived == Top.x
           cls == Top.y
           bases == GetBases(derived)
       IN  IF derived = cls THEN Return(Ok("true"))
           ELSE IF bases.k = "err" THEN Return(Err(bases.v))
           ELSE IF ~bases.tuple THEN Return(Err("TypeError: not a tuple"))
           ELSE IF Len(bases.v) = 0 THEN Return(Ok("false"))
           ELSE IF Len(bases.v) = 1
                THEN /\ stack' = [stack EXCEPT ![Len(stack)].x = bases.v[1]]
                     /\ UNCHANGED <<depth, ret>>
           ELSE CallGuarded([Top EXCEPT !.pc = "base",
                                        !.log = IF CheckRecursiveCall(depth)
                                                THEN Append(@, Ev("base", bases.v[1], cls, 1)) ELSE @],
                            Frame("abstract_issubclass", bases.v[1], cls, "none", FALSE))
    /\ TypeUnchanged

\* abstract_issubclass after the check of the first of several bases.
AbstractIssubclassAfterBase ==
    /\ Running("abstract_issubclass", "base")
    /\ IF Top.rv.k = "err" THEN Return(Top.rv)
       ELSE IF Top.rv.v = "true" THEN Return(Ok("true"))
       ELSE Return(Ok("false"))
    /\ TypeUnchanged

IsCheckHook == stack # <<>> /\ Top.fn \in {"instancecheck", "subclasscheck"}

\* A check hook that answers at once: an object, or an error of its own.
CheckHookAnswer ==
    /\ IsCheckHook /\ Top.pc = "start"
    /\ LET h == CheckHook(Top.x)
       IN  /\ h # "rec"
           /\ Return(IF h = "err" THEN Err("HookError") ELSE Ok(h))
    /\ TypeUnchanged

\* A check hook that asks the same question again.
CheckHookRecurse ==
    /\ IsCheckHook /\ Top.pc = "start"
    /\ CheckHook(Top.x) = "rec"
    /\ Call([Top EXCEPT !.pc = "ret"],
            Frame(IF Top.fn = "instancecheck" THEN "is_instance" ELSE "is_subclass",
                  Top.y, Top.x, "none", FALSE))
    /\ TypeUnchanged

\* ... and returns the answer it got.
CheckHookRecReturn ==
    /\ IsCheckHook /\ Top.pc = "ret"
    /\ Return(Top.rv)
    /\ TypeUnchanged

NextType ==
    \/ CallIsInstance
    \/ CallIsSubclass
    \/ TakeTypeResult
    \/ IsInstance
    \/ AfterElem
    \/ AfterCheckHook
    \/ IsInstanceAfterAbstract
    \/ IsSubclass
    \/ IsSubclassAfterAbstract
    \/ AbstractIssubclass
    \/ AbstractIssubclassAfterBase
    \/ CheckHookAnswer
    \/ CheckHookRecurse
    \/ CheckHookRecReturn

----------------------------------------------------------------------------
(* Item access: get_item, set_item, del_item.                              *)
(*                                                                         *)
(* An object is [kind, sub, item, ass, sass, cgi]:                         *)
(*   kind  "dict" an exact dict, "type" the class type itself, "class"     *)
(*         any other class, "obj" an object that is no class               *)
(*   sub   what the mapping subscript slot of its class does               *)
(*   item  what the sequence item slot does                                *)
(*   ass   what the mapping ass_subscript slot does                        *)
(*   sass  what the sequence ass_item slot does                            *)
(*   cgi   what its __class_getitem__ attribute does                       *)
(* A slot is "none" (empty), "ok" (the hook succeeds) or "err" (the hook   *)
(* fails); reading cgi may also fail, "lookup_err".                        *)

SlotBehaviours == {"none", "ok", "err"}

ItemObjs ==
    [kind : {"obj"}, sub : SlotBehaviours, item : SlotBehaviours,
     ass : SlotBehaviours, sass : SlotBehaviours, cgi : {"none", "ok"}]
    \cup [kind : {"class"}, sub : SlotBehaviours, item : SlotBehaviours,
          ass : SlotBehaviours, sass : SlotBehaviours, cgi : {"none", "ok", "err", "lookup_err"}]
    \cup [kind : {"type"}, sub : {"none"}, item : {"none"},
          ass : {"none"}, sass : {"none"}, cgi : {"none"}]
    \cup [kind : {"dict"}, sub : {"ok", "err"}, item : {"none"},
          ass : {"ok", "err"}, sass : {"none"}, cgi : {"none"}]

\* The keys: one that converts to an integer index and one that does not.
ItemKeys == {"int", "str"}

\* self.downcast_ref_if_exact::<PyDict>(vm)
IsExactDict(o) == o.kind = "dict"

\* dict.get_item / set_item / del_item, the direct path of an exact dict
DictItem(behaviour, found) == IF behaviour = "ok" THEN Ok(found) ELSE Err("KeyError")

\* PyMapping::try_protocol(self, vm).is_ok()
MappingTryProtocol(o) == o.sub # "none"

\* PySequence::try_protocol(self, vm).is_ok()
SequenceTryProtocol(o) == o.item # "none"

\* needle.key_as_isize(vm)
KeyAsIsize(key) == IF key = "int" THEN Ok("index") ELSE Err("TypeError: index")

\* self.class().fast_issubclass(vm.ctx.types.type_type)
IsClassObject(o) == o.kind \in {"class", "type"}

NotSubscriptable == Err("TypeError: object is not subscriptable")

NotAssignable == Err("TypeError: does not support item assignment")

NotDeletable == Err("TypeError: does not support item deletion")

ItemUnchanged == UNCHANGED <<inst, store, hist, sys_modules>>

\* A top-level get_item(o, key).
CallGetItem ==
    /\ Idle
    /\ \E o \in ItemObjs, key \in ItemKeys :
           stack' = <<Frame("get_item", o, key, "none", FALSE)>>
    /\ UNCHANGED <<depth, ret>>
    /\ ItemUnchanged

\* A top-level set_item(o, key, value) or del_item(o, key).
CallSetItem ==
    /\ Idle
    /\ \E o \in ItemObjs, key \in ItemKeys, fn \in {"set_item", "del_item"} :
           stack' = <<Frame(fn, o, key, IF fn = "set_item" THEN "v1" ELSE "none", FALSE)>>
    /\ UNCHANGED <<depth, ret>>
    /\ ItemUnchanged

\* The caller of a top-level item call takes its result.
TakeItemResult ==
    /\ stack = <<>>
    /\ ret.fn \in {"get_item", "set_item", "del_item"}
    /\ ret' = NoCall
    /\ UNCHANGED <<depth, stack>>
    /\ ItemUnchanged

\* The frame f calls the hook with the key as the hook gets it.
CallItemHook(f, hook, key) ==
    Call([f EXCEPT !.pc = "hook", !.log = Append(@, Ev(hook, f.x, key, f.z))],
         Frame(hook, f.x, key, f.z, FALSE))

GetItemRoute_SequenceFirst(o) ==
    CASE IsExactDict(o) -> "dict"
      [] SequenceTryProtocol(o) -> "sequence"
      [] MappingTryProtocol(o) -> "mapping"
      [] IsClassObject(o) -> "class"
      [] OTHER -> "none"

GetItemRoute_AnyClassGetitem(o) ==
    CASE IsExactDict(o) -> "dict"
      [] MappingTryProtocol(o) -> "mapping"
      [] SequenceTryProtocol(o) -> "sequence"
      [] OTHER -> "class"

\* get_item: the branch taken
GetItemRoute(o) ==
    CASE IsExactDict(o) -> "dict"
      [] MappingTryProtocol(o) -> "mapping"
      [] SequenceTryProtocol(o) -> "sequence"
      [] IsClassObject(o) -> "class"
      [] OTHER -> "none"

\* get_item, the branch of a class object: type[key] is a generic alias,
\* any other class is asked for its __class_getitem__
GetItemOfClass(f) ==
    LET o == f.x
    IN  IF o.kind = "type" THEN Return(Ok("GenericAlias"))
        ELSE IF o.cgi = "lookup_err" THEN Return(Err("LookupError"))
        ELSE IF o.cgi # "none" THEN CallItemHook(f, "class_getitem", f.y)
        ELSE Return(NotSubscriptable)

\* get_item from its start to the hook it calls, or to its result.
GetItem ==
    /\ Running("get_item", "start")
    /\ LET o == Top.x
           route == GetItemRoute(o)
           i == KeyAsIsize(Top.y)
       IN  CASE route = "dict" -> Return(DictItem(o.sub, "item"))
             [] route = "mapping" -> CallItemHook(Top, "subscript", Top.y)
             [] route = "sequence" ->
                    IF i.k = "err" THEN Return(i) ELSE CallItemHook(Top, "seq_item", i.v)
             [] route = "class" -> GetItemOfClass(Top)
             [] OTHER -> Return(NotSubscriptable)
    /\ ItemUnchanged

AssItemRoute_SequenceFirst(o) ==
    CASE IsExactDict(o) -> "dict"
      [] o.sass # "none" -> "sequence"
      [] o.ass # "none" -> "mapping"
      [] OTHER -> "none"

\* set_item / del_item: the branch taken
AssItemRoute(o) ==
    CASE IsExactDict(o) -> "dict"
      [] o.ass # "none" -> "mapping"
      [] o.sass # "none" -> "sequence"
      [] OTHER -> "none"

\* set_item and del_item differ in the value they hand to the hook
\* (Some(value) or None) and in the error of the last branch.
AssItem(f, noroute) ==
    LET o == f.x
        route == AssItemRoute(o)
        i == KeyAsIsize(f.y)
    IN  CASE route = "dict" -> Return(DictItem(o.ass, "none"))
          [] route = "mapping" -> CallItemHook(f, "ass_subscript", f.y)
          [] route = "sequence" ->
                 IF i.k = "err" THEN Return(i) ELSE CallItemHook(f, "ass_item", i.v)
          [] OTHER -> Return(noroute)

\* set_item from its start to the hook it calls, or to its result.
SetItem ==
    /\ Running("set_item", "start")
    /\ AssItem(Top, NotAssignable)
    /\ ItemUnchanged

\* del_item from its start to the hook it calls, or to its result.
DelItem ==
    /\ Running("del_item", "start")
    /\ AssItem(Top, NotDeletable)
    /\ ItemUnchanged

\* get_item / set_item / del_item return what the hook returned.
ItemAfterHook ==
    /\ stack # <<>> /\ Top.fn \in {"get_item", "set_item", "del_item"} /\ Top.pc = "hook"
    /\ Return(Top.rv)
    /\ ItemUnchanged

ItemHooks == {"subscript", "seq_item", "ass_subscript", "ass_item", "class_getitem"}

\* What the hook of o called `hook` does.
ItemHookBehaviour(o, hook) ==
    CASE hook = "subscript" -> o.sub
      [] hook = "seq_item" -> o.item
      [] hook = "ass_subscript" -> o.ass
      [] hook = "ass_item" -> o.sass
      [] OTHER -> o.cgi

\* An item hook answers: a value of its own, or an error of its own.
ItemHook ==
    /\ stack # <<>> /\ Top.fn \in ItemHooks
    /\ Return(IF ItemHookBehaviour(Top.x, Top.fn) = "err" THEN Err("HookError")
              ELSE IF Top.fn \in {"ass_subscript", "ass_item"} THEN Ok("none")
              ELSE Ok(Top.fn))
    /\ ItemUnchanged

NextItem ==
    \/ CallGetItem
    \/ CallSetItem
    \/ TakeItemResult
    \/ GetItem
    \/ SetItem
    \/ DelItem
    \/ ItemAfterHook
    \/ ItemHook

----------------------------------------------------------------------------
(* Hashing: hash(o).                                                       *)
(*                                                                         *)
(* An object is [own, parent, grand]: what its class, the base of its      *)
(* class and the base of that one say about hashing, each one of           *)
(*   "inherit"   the class defines no __hash__ and has no hash slot        *)
(*   "disabled"  the class sets __hash__ to None; its hash slot holds the  *)
(*               function that refuses                                     *)
(*   "ok", "err" the class defines __hash__; its hash slot calls it, and   *)
(*               it returns a hash or fails                                *)
(* The last class of every MRO is object, whose __hash__ succeeds.         *)

HashBehaviours == {"disabled", "ok", "err"}

HashObjs ==
    [own : HashBehaviours \cup {"inherit"}, parent : HashBehaviours \cup {"inherit"},
     grand : HashBehaviours \cup {"inherit"}]

\* self.class().mro: what each class says, and whose it is
HashMro(o) ==
    <<[cls |-> "own", hash |-> o.own], [cls |-> "parent", hash |-> o.parent],
      [cls |-> "grand", hash |-> o.grand], [cls |-> "object", hash |-> "ok"]>>

\* The first class of the MRO that says anything about hashing.
RECURSIVE MroFindHash(_, _)
MroFindHash(mro, i) == IF mro[i].hash # "inherit" THEN mro[i] ELSE MroFindHash(mro, i + 1)

\* self.get_class_attr(__hash__).unwrap()
GetClassAttrHash(o) ==
    IF MroFindHash(HashMro(o), 1).hash = "disabled" THEN "None" ELSE "function"

\* self.class().mro_find_map(|cls| cls.slots.hash.load()).unwrap()
HashSlot(o) == MroFindHash(HashMro(o), 1)

HashDisabled_Never(attr) == FALSE

\* vm.is_none(&hash)
HashDisabled(attr) == attr = "None"

Unhashable == Err("TypeError: unhashable type")

HashUnchanged == UNCHANGED <<inst, store, hist, sys_modules>>

\* A top-level hash(o).
CallHash ==
    /\ Idle
    /\ \E o \in HashObjs : stack' = <<Frame("hash", o, "none", "none", FALSE)>>
    /\ UNCHANGED <<depth, ret>>
    /\ HashUnchanged

\* The caller of a top-level hash takes its result.
TakeHashResult ==
    /\ stack = <<>>
    /\ ret.fn = "hash"
    /\ ret' = NoCall
    /\ UNCHANGED <<depth, stack>>
    /\ HashUnchanged

\* hash from its start to the call of the hash slot, or to its error.
Hash ==
    /\ Running("hash", "start")
    /\ LET o == Top.x
           slot == HashSlot(o)
       IN  IF HashDisabled(GetClassAttrHash(o)) THEN Return(Unhashable)
           ELSE Call([Top EXCEPT !.pc = "hook",
                                 !.log = Append(@, Ev("hash_slot", slot.cls, "none", "none"))],
                     Frame("hash_slot", slot, "none", "none", FALSE))
    /\ HashUnchanged

\* hash returns what the slot returned.
HashAfterSlot ==
    /\ Running("hash", "hook")
    /\ Return(Top.rv)
    /\ HashUnchanged

\* The hash slot of a class: the class's __hash__ answers or fails; the
\* slot of a class that disabled hashing refuses.
HashSlotHook ==
    /\ Running("hash_slot", "start")
    /\ Return(CASE Top.x.hash = "ok" -> Ok(Top.x.cls)
                [] Top.x.hash = "err" -> Err("HookError")
                [] OTHER -> Unhashable)
    /\ HashUnchanged

NextHash ==
    \/ CallHash
    \/ TakeHashResult
    \/ Hash
    \/ HashAfterSlot
    \/ HashSlotHook

----------------------------------------------------------------------------
(* Import: import_code_obj(module_name, code_obj) of vm/src/import.rs.     *)
(*                                                                         *)
(* The module cache is [ok, a, b]: ok says whether sys.modules can be read *)
(* (the attribute may have been deleted), a and b are what it holds under  *)
(* the two module names, "absent" or a module.  A module is named after    *)
(* its name and a generation, so that a module made anew is not the one    *)
(* the cache held before.  The code of a module                            *)
(*   "ok", "err"     runs to its end, or fails                             *)
(*   "lookup_self"   looks its own name up in sys.modules, and fails if it *)
(*                   is not there                                          *)
(*   "import_peer"   imports the other module, whose code imports this one *)

ModuleNames == {"a", "b"}

CodeObjs == {"ok", "err", "lookup_self", "import_peer"}

NoModules == [ok |-> TRUE, a |-> "absent", b |-> "absent"]

\* sys_modules.get_item(name)
SysModulesGet(mods, name) == IF name = "a" THEN mods.a ELSE mods.b

SysModulesSetItem_Forgets(mods, name, module) == mods

\* sys_modules.set_item(module_name, module)
SysModulesSetItem(mods, name, module) ==
    IF name = "a" THEN [mods EXCEPT !.a = module] ELSE [mods EXCEPT !.b = module]

\* vm.new_module(module_name, attrs, None): a module that did not exist
NewModule(mods, name) ==
    IF name = "a" THEN (IF mods.a = "a0" THEN "a1" ELSE "a0")
    ELSE (IF mods.b = "b0" THEN "b1" ELSE "b0")

Peer(name) == IF name = "a" THEN "b" ELSE "a"

ImportUnchanged == UNCHANGED <<inst, store, hist>>

\* A top-level import_code_obj(module_name, code_obj).
CallImport ==
    /\ Idle
    /\ \E name \in ModuleNames, code \in CodeObjs :
           stack' = <<Frame("import_code_obj", name, code, "none", FALSE)>>
    /\ UNCHANGED <<depth, ret, sys_modules>>
    /\ ImportUnchanged

\* The caller of a top-level import takes its result.
TakeImportResult ==
    /\ stack = <<>>
    /\ ret.fn = "import_code_obj"
    /\ ret' = NoCall
    /\ UNCHANGED <<depth, stack, sys_modules>>
    /\ ImportUnchanged

\* The program deletes sys.modules.
DelSysModules ==
    /\ Idle
    /\ sys_modules.ok
    /\ sys_modules' = [sys_modules EXCEPT !.ok = FALSE]
    /\ UNCHANGED <<depth, stack, ret>>
    /\ ImportUnchanged

\* import_code_obj from its start to run_code_obj: the module is made and
\* put into sys.modules, then its code is run.
ImportCodeObj ==
    /\ Running("import_code_obj", "start")
    /\ LET name == Top.x
           module == NewModule(sys_modules, name)
       IN  IF ~sys_modules.ok
           THEN Return(Err("AttributeError")) /\ UNCHANGED sys_modules
           ELSE /\ sys_modules' = SysModulesSetItem(sys_modules, name, module)
                /\ Call([Top EXCEPT !.pc = "run", !.z = module,
                                    !.log = Append(@, Ev("run_code_obj", name, Top.y, module))],
                        Frame("run_code_obj", name, Top.y, module, FALSE))
    /\ ImportUnchanged

\* import_code_obj after run_code_obj: vm.run_code_obj(..)?; Ok(module)
ImportAfterRun ==
    /\ Running("import_code_obj", "run")
    /\ Return(IF Top.rv.k = "err" THEN Top.rv ELSE Ok(Top.z))
    /\ UNCHANGED sys_modules
    /\ ImportUnchanged

\* The code of a module runs to its end or fails, having looked its own
\* name up in sys.modules if that is what it does.
RunCode ==
    /\ Running("run_code_obj", "start")
    /\ Top.y # "import_peer"
    /\ LET found == SysModulesGet(sys_modules, Top.x)
       IN  Return(CASE Top.y = "ok" -> Ok("none")
                    [] Top.y = "err" -> Err("CodeError")
                    [] OTHER -> IF found = "absent" THEN Err("KeyError") ELSE Ok(found))
    /\ UNCHANGED sys_modules
    /\ ImportUnchanged

\* The code of a module imports the other module: the module sys.modules
\* holds under that name, or else a new one, whose code is run.
RunCodeImportPeer ==
    /\ Running("run_code_obj", "start")
    /\ Top.y = "import_peer"
    /\ LET found == SysModulesGet(sys_modules, Peer(Top.x))
       IN  IF found # "absent" THEN Return(Ok(found))
           ELSE Call([Top EXCEPT !.pc = "peer"],
                     Frame("import_code_obj", Peer(Top.x), "import_peer", "none", FALSE))
    /\ UNCHANGED sys_modules
    /\ ImportUnchanged

\* ... and goes on when the import returned.
RunCodeAfterPeer ==
    /\ Running("run_code_obj", "peer")
    /\ Return(Top.rv)
    /\ UNCHANGED sys_modules
    /\ ImportUnchanged

NextImport ==
    \/ CallImport
    \/ TakeImportResult
    \/ DelSysModules
    \/ ImportCodeObj
    \/ ImportAfterRun
    \/ RunCode
    \/ RunCodeImportPeer
    \/ RunCodeAfterPeer

----------------------------------------------------------------------------
(* The specifications.                                                     *)

Init ==
    /\ depth = 0
    /\ stack = <<>>
    /\ ret = NoCall
    /\ inst = NoObject
    /\ store = EmptyStore
    /\ hist = <<NoHist, NoHist>>
    /\ sys_modules = NoModules

SpecCmp == Init /\ [][NextCmp]_vars

SpecAttr == Init /\ [][NextAttr]_vars

SpecType == Init /\ [][NextType]_vars

SpecItem == Init /\ [][NextItem]_vars

SpecHash == Init /\ [][NextHash]_vars

SpecImport == Init /\ [][NextImport]_vars

\* The calls that go through the recursion guard.
NextGuarded == NextCmp \/ NextType

SpecGuarded == Init /\ [][NextGuarded]_vars

Next == NextCmp \/ NextAttr \/ NextType \/ NextItem \/ NextHash \/ NextImport

Spec == Init /\ [][Next]_vars

\* A call that is running keeps running: the protocol is synchronous code.
CmpStep ==
    \/ TakeCmpResult
    \/ CmpStart
    \/ CmpAfterReflectedFirst
    \/ CmpAfterForward
    \/ CmpAfterReflectedLast
    \/ CmpHookAnswer
    \/ CmpHookRecurse
    \/ CmpHookRecReturn

SpecCmpFair == SpecCmp /\ WF_vars(CmpStep)

\* A type query that is running keeps running.
TypeStep ==
    \/ TakeTypeResult
    \/ IsInstance
    \/ AfterElem
    \/ AfterCheckHook
    \/ IsInstanceAfterAbstract
    \/ IsSubclass
    \/ IsSubclassAfterAbstract
    \/ AbstractIssubclass
    \/ AbstractIssubclassAfterBase
    \/ CheckHookAnswer
    \/ CheckHookRecurse
    \/ CheckHookRecReturn

SpecTypeFair == SpecType /\ WF_vars(TypeStep)

----------------------------------------------------------------------------
(* Claims about comparison.                                                *)

\* class(b) is a subclass of class(a) and not class(a) itself.
StrictSub(a, b) ==
    /\ a.cls # b.cls
    /\ b.cls.parent # "none"
    /\ a.cls = [own |-> b.cls.parent, parent |-> "none"]

IsAttempt(e, who, x, y, z) == e.who = who /\ e.x = x /\ e.y = y /\ e.z = z

\* The hook calls of a compare(c.x, c.y, c.z) come reflected first.
ReflectedFirst(c) ==
    /\ Len(c.log) <= 2
    /\ Len(c.log) >= 1 => IsAttempt(c.log[1], "refl", c.y, c.x, Swapped(c.z))
    /\ Len(c.log) >= 2 => /\ IsAttempt(c.log[2], "fwd", c.x, c.y, c.z)
                          /\ c.log[1].res = NotImplemented

\* C1: in compare(a, b, op) with class(b) a strict subclass of class(a), the
\* first hook call is b's with (b, a, swap(op)); a's hook is called, with
\* (a, b, op), only after that call returned not-implemented; and a
\* definite result of the reflected call is the result of compare.
C1_SubclassReflectedFirst ==
    /\ \A i \in 1..Len(stack) :
          (stack[i].fn = "cmp" /\ StrictSub(stack[i].x, stack[i].y))
              => ReflectedFirst(stack[i])
    /\ (ret.fn = "cmp" /\ StrictSub(ret.x, ret.y)) =>
          /\ ReflectedFirst(ret)
          /\ (Len(ret.log) >= 1 /\ ret.log[1].res.k = "ok") =>
                (Len(ret.log) = 1 /\ ret.res = ret.log[1].res)

\* Both classes implement the hook: b's declined, a's answered.
C1_Witness ==
    /\ ret.fn = "cmp" /\ StrictSub(ret.x, ret.y) /\ ret.z = "Eq"
    /\ ret.y.cls.own = "ni"
    /\ Len(ret.log) = 2 /\ ret.log[2].res = Ok("true")
    /\ ret.res = Ok("true")

\* The guarded hook calls that are running.
GuardedNesting == Cardinality({i \in 1..Len(stack) : stack[i].g})

CalledRecHook(c) ==
    \E i \in 1..Len(c.log) : RichcompareSlot(c.log[i].x.cls) = "rec"

\* C6: the nesting of guarded hook calls never exceeds the limit; a compare
\* that called a hook which re-invokes compare on its own operands fails
\* with RecursionError; and every compare that was started returns.
C6_RecursiveHookBounded ==
    /\ [](depth <= RecursionLimit /\ GuardedNesting <= RecursionLimit)
    /\ []((ret.fn = "cmp" /\ CalledRecHook(ret)) => ret.res = Err("RecursionError"))
    /\ ((stack # <<>>) ~> (stack = <<>>))

\* compare(a, a, Eq) on a class whose hook recurses failed, and not by luck:
\* no other hook was there to answer.
C6_Witness ==
    /\ ret.fn = "cmp" /\ ret.z = "Eq" /\ ret.x = ret.y
    /\ ret.x.cls = [own |-> "rec", parent |-> "none"]
    /\ ret.res = Err("RecursionError")
    /\ depth = 0

AllDeclined(c) ==
    /\ Len(c.log) = 2
    /\ \A i \in 1..Len(c.log) : c.log[i].res = NotImplemented

\* C7: when every hook tried returned not-implemented, compare(a, b, Eq) is
\* whether a and b are the same object, Ne is the negation of that, and
\* the four ordering operators fail with Unorderable.
C7_ComparisonFallback ==
    (ret.fn = "cmp" /\ AllDeclined(ret)) =>
        /\ ret.z = "Eq" => ret.res = Ok(IF ret.x = ret.y THEN "true" ELSE "false")
        /\ ret.z = "Ne" => ret.res = Ok(IF ret.x = ret.y THEN "false" ELSE "true")
        /\ ret.z \in {"Lt", "Le", "Gt", "Ge"} => ret.res = Err("Unorderable")

\* Eq on one object whose hook declines: true by identity.
C7_Witness ==
    /\ ret.fn = "cmp" /\ AllDeclined(ret)
    /\ ret.z = "Eq" /\ ret.x = ret.y /\ ret.res = Ok("true")

----------------------------------------------------------------------------
(* Claims about attributes.                                                *)

\* The class attribute for "n": the first definition in MRO order.
FirstDef(o) == IF o.own # NoAttr THEN o.own ELSE o.inh

FirstDefId(o) == IF o.own # NoAttr THEN "own" ELSE "inh"

DefinesData(o) == FirstDef(o).get \in {"ret", "err"} /\ FirstDef(o).set \in {"ok", "err"}

DefinesNonData(o) == FirstDef(o).get \in {"ret", "err"} /\ FirstDef(o).set = "none"

DefinesSetHook(o) == FirstDef(o).set \in {"ok", "err"}

GetHookOutcome(o) ==
    IF FirstDef(o).get = "ret"
    THEN Ok(IF o.own # NoAttr THEN "hv_own" ELSE "hv_inh")
    ELSE Err("HookError")

GotN == ret.fn = "get_attr" /\ ret.y = "n"

SetN == ret.fn = "set_attr" /\ ret.y = "n"

\* C2: when the class defines n as a data descriptor, get_attribute(i, n) is
\* the outcome of one call of the descriptor's get hook with (i, class(i)),
\* whatever the instance storage holds under n; the stored value is not
\* returned.
C2_DataDescriptorPrecedence ==
    (GotN /\ DefinesData(inst)) =>
        /\ Len(ret.log) = 1
        /\ IsAttempt(ret.log[1], "descr_get", FirstDefId(inst), "inst", "class")
        /\ ret.res = ret.log[1].res
        /\ ret.res = GetHookOutcome(inst)
        /\ ret.res.v \notin {"v0", "v1", "v2"}

\* The storage holds n, and the descriptor answered.
C2_Witness ==
    /\ GotN /\ DefinesData(inst)
    /\ inst.dict /\ store.n = "v0"
    /\ ret.res = Ok("hv_own")

\* C3: when the class defines n as a non-data descriptor and the instance
\* storage holds a value under n, get_attribute(i, n) returns that value
\* and calls no hook.
C3_NonDataDescriptorShadowed ==
    (GotN /\ DefinesNonData(inst) /\ inst.dict /\ store.n # "absent") =>
        /\ ret.res = Ok(store.n)
        /\ ret.log = <<>>

C3_Witness ==
    /\ GotN /\ DefinesNonData(inst) /\ inst.dict /\ store.n = "v0"
    /\ FirstDef(inst).get = "ret"
    /\ ret.res = Ok("v0")

\* The call before this one was a set_attribute(o, n, v) that succeeded.
JustSetN == hist[2].fn = "set_attr" /\ hist[2].name = "n" /\ hist[2].val # "DELETE"
                /\ hist[2].res.k = "ok"

\* C4 as claimed: on an object with instance storage whose class defines no
\* data descriptor (get and set hooks) under n, get_attribute(o, n) right
\* after a successful set_attribute(o, n, v) returns v.
C4_RoundTrip_AsClaimed ==
    (GotN /\ JustSetN /\ inst.dict /\ ~DefinesData(inst)) => ret.res = Ok(hist[2].val)

\* C4: on an object with instance storage whose class attribute for n, if
\* any, defines no set/delete hook, get_attribute(o, n) right after a
\* successful set_attribute(o, n, v) returns v.
C4_RoundTrip ==
    (GotN /\ JustSetN /\ inst.dict /\ ~DefinesSetHook(inst)) => ret.res = Ok(hist[2].val)

\* The value read back shadows a non-data descriptor.
C4_Witness ==
    /\ GotN /\ JustSetN /\ inst.dict /\ DefinesNonData(inst)
    /\ hist[2].val = "v2" /\ ret.res = Ok("v2")

\* C8: when the class attribute for n defines a set/delete hook,
\* set_attribute(o, n, value-or-delete) calls that hook once, returns the
\* hook's outcome and leaves the instance storage as it was; and after a
\* set that failed in the hook, get_attribute(o, n) returns what it
\* returned before that set.
C8_SetHookDelegation ==
    /\ (SetN /\ inst.slots = "generic" /\ DefinesSetHook(inst)) =>
          /\ Len(ret.log) = 1
          /\ IsAttempt(ret.log[1], "descr_set", FirstDefId(inst), "inst", ret.z)
          /\ ret.res = ret.log[1].res
          /\ ret.res = (IF FirstDef(inst).set = "ok" THEN Ok("unit") ELSE Err("HookError"))
          /\ store = ret.s0
    /\ (/\ GotN /\ inst.slots = "generic" /\ DefinesSetHook(inst)
        /\ hist[2].fn = "set_attr" /\ hist[2].name = "n" /\ hist[2].res.k = "err"
        /\ hist[1].fn = "get_attr" /\ hist[1].name = "n" /\ hist[1].res.k = "ok")
          => ret.res = hist[1].res

\* get, a set that the hook refused, get again: the same value.
C8_Witness ==
    /\ GotN /\ DefinesData(inst) /\ FirstDef(inst).set = "err"
    /\ hist[2].fn = "set_attr" /\ hist[2].name = "n" /\ hist[2].val = "v1"
    /\ hist[2].res = Err("HookError")
    /\ hist[1].fn = "get_attr" /\ hist[1].name = "n" /\ hist[1].res = Ok("hv_own")
    /\ ret.res = Ok("hv_own")

TypeErrorMessages ==
    {SetattroMessage(g, a) : g \in BOOLEAN, a \in BOOLEAN}

\* A set or delete of n on an object without instance storage, whose class
\* attribute for n, if any, has no set/delete hook.
SetWithoutStorage == SetN /\ inst # NoObject /\ ~inst.dict /\ ~DefinesSetHook(inst)

\* C9 as claimed: set_attribute on an object without instance storage, when
\* no class attribute for n defines a set/delete hook, fails with a
\* TypeError whose message tells assignment from deletion.
C9_NoStorage_AsClaimed ==
    SetWithoutStorage =>
        /\ ret.res.k = "err"
        /\ ret.res.v \in TypeErrorMessages
        /\ ret.res.v = SetattroMessage(inst.slots = "noset", ret.z # "DELETE")

\* C9: such a set_attribute fails.  When no class of the MRO publishes an
\* attribute-set slot the error is a TypeError whose message says "no
\* attributes" or "only read-only attributes" (the class has an
\* attribute-get slot) and "assign to" or "del"; otherwise it is an
\* AttributeError, the same for assignment and deletion.
C9_NoStorage ==
    SetWithoutStorage =>
        /\ ret.res.k = "err"
        /\ inst.slots = "nogetset" =>
              ret.res.v = (IF ret.z = "DELETE" THEN "TypeError: no attributes (del)"
                           ELSE "TypeError: no attributes (assign to)")
        /\ inst.slots = "noset" =>
              ret.res.v = (IF ret.z = "DELETE" THEN "TypeError: only read-only attributes (del)"
                           ELSE "TypeError: only read-only attributes (assign to)")
        /\ inst.slots = "generic" => ret.res.v = "AttributeError"

C9_Witness ==
    /\ SetWithoutStorage /\ inst.slots = "generic" /\ ret.z = "v1"
    /\ ret.res = Err("AttributeError")

----------------------------------------------------------------------------
(* Claims about the recursion guard and about type relationships.          *)

\* C5: when a compare, is_instance or is_subclass call has returned, by
\* success, by a hook's error or by RecursionError, the counter is what it
\* was when the call started; the same holds for every nested call, so
\* that the frame that runs always sees the counter it started with.
C5_GuardBalanced ==
    /\ ret.fn \in {"cmp", "is_instance", "is_subclass"} => depth = ret.d0
    /\ stack # <<>> => depth = Top.d0 + (IF Top.g THEN 1 ELSE 0)
    /\ depth \in 0..RecursionLimit

\* An is_instance whose hook recursed to the limit has failed, and the
\* counter is back where it started.
C5_Witness ==
    /\ ret.fn = "is_instance" /\ ret.y = T("mcls", "rec")
    /\ ret.res = Err("RecursionError")
    /\ stack = <<>> /\ depth = 0

\* cls publishes a hook of its own: its class does, and is not type.
PublishesCheckHook(cls) == cls.k \in {"mcls", "tuph"}

\* What is_instance makes of a hook that behaves as h says.
CheckHookOutcome(cls) ==
    LET h == IF cls.k = "mcls" THEN cls.h ELSE "true"
    IN  CASE h \in {"true", "truthy"} -> Ok("true")
          [] h = "false" -> Ok("false")
          [] h = "err" -> Err("HookError")
          [] h = "badbool" -> Err("BoolError")
          [] OTHER -> Err("RecursionError")

HookDecided(c) ==
    /\ Len(c.log) = 1
    /\ IsAttempt(c.log[1], "instancecheck", c.y, c.x, "none")
    /\ c.res = CheckHookOutcome(c.y)

\* C10 as claimed: when cls publishes an instance-check hook, is_instance(o,
\* cls) calls it and returns its result coerced to a boolean, for every o,
\* also when class(o) is cls.
C10_HookDecides_AsClaimed ==
    (ret.fn = "is_instance" /\ PublishesCheckHook(ret.y)) => HookDecided(ret)

\* C10: when cls publishes an instance-check hook, is not a tuple, and is
\* not the class of o, is_instance(o, cls) calls the hook once (the guard
\* admitting the call) and returns its result coerced to a boolean, or its
\* error.
C10_HookDecides ==
    (/\ ret.fn = "is_instance" /\ PublishesCheckHook(ret.y)
     /\ ~TIsTuple(ret.y) /\ TClassOf(ret.x) # ret.y)
        => HookDecided(ret)

\* The hook says yes where the class of the object says no.
C10_Witness ==
    /\ ret.fn = "is_instance" /\ ret.x = T("obj", "a") /\ ret.y = T("mcls", "truthy")
    /\ ret.res = Ok("true")

\* An is_instance(o, cls) frame that is past its first block.
PastExactClass(f) == f.fn = "is_instance" /\ f.pc # "start"

\* C11: is_instance(o, class(o)) is true for every object o, whatever hooks
\* class(o) or its metaclass publish, and it calls nothing: neither a check
\* hook nor the test of a tuple element; the same holds for the nested
\* calls, which never get past the comparison of class(o) with cls.
C11_ExactClassIsInstance ==
    /\ (ret.fn = "is_instance" /\ TClassOf(ret.x) = ret.y) =>
           (ret.res = Ok("true") /\ ret.log = <<>>)
    /\ \A i \in 1..Len(stack) : PastExactClass(stack[i]) => TClassOf(stack[i].x) # stack[i].y

\* An instance of a class whose instance-check hook fails is an instance of
\* that class, and the hook was not asked.
C11_Witness ==
    /\ ret.fn = "is_instance" /\ ret.x = T("minst", "err") /\ ret.y = T("mcls", "err")
    /\ ret.res = Ok("true") /\ ret.log = <<>>

\* The longest chain of bases among the objects asked about.
MaxBasesChain == 4

\* cls is x, or is reached from x by following bases, any of them, in at
\* most n steps.
RECURSIVE ReachableByBases(_, _, _)
ReachableByBases(x, cls, n) ==
    \/ x = cls
    \/ /\ n > 0
       /\ GetBases(x).k = "ok"
       /\ \E i \in 1..Len(GetBases(x).v) : ReachableByBases(GetBases(x).v[i], cls, n - 1)

\* An is_subclass(x, cls) that went through the walk of the bases and gave
\* an answer.
WalkedBases(c) ==
    /\ c.fn = "is_subclass" /\ c.x.k = "abs" /\ c.y.k = "abs"
    /\ c.res.k = "ok"

\* C12 as claimed: the walk of the bases in is_subclass(x, cls) tries every
\* base of an object that has several: the answer is true exactly when cls
\* is reached from x by following bases, through any base.
C12_AllBasesTried_AsClaimed ==
    WalkedBases(ret) => (ret.res.v = "true" <=> ReachableByBases(ret.x, ret.y, MaxBasesChain))

\* A call whose second argument is a tuple of candidates.
TupleQuery(c) == c.fn \in {"is_instance", "is_subclass"} /\ TIsTuple(c.y)

\* The calls made are the tests of the first Len(log) elements, in order.
TestsInOrder(c) ==
    /\ Len(c.log) <= Len(TElems(c.y))
    /\ \A i \in 1..Len(c.log) : IsAttempt(c.log[i], "elem", c.x, TElems(c.y)[i], i)

\* C13: is_instance / is_subclass with a tuple of candidates tests the
\* elements in tuple order; every test before the last one made said
\* false; the answer is true exactly when the last test made said true,
\* and false only after every element was tested and said false (at once
\* for the empty tuple).
C13_TupleOfCandidates ==
    (TupleQuery(ret) /\ ret.res.k = "ok") =>
        /\ TestsInOrder(ret)
        /\ \A i \in 1..(Len(ret.log) - 1) : ret.log[i].res = Ok("false")
        /\ ret.res.v = "true" <=> (ret.log # <<>> /\ ret.log[Len(ret.log)].res = Ok("true"))
        /\ ret.res.v = "false" =>
              /\ Len(ret.log) = Len(TElems(ret.y))
              /\ \A i \in 1..Len(ret.log) : ret.log[i].res = Ok("false")
        /\ ret.res.v \in {"true", "false"}

\* The first of two candidates said true and the second was not tested.
C13_Witness ==
    /\ TupleQuery(ret) /\ ret.fn = "is_subclass"
    /\ ret.x = T("cls", "B") /\ ret.y = T("tup", "tAU")
    /\ ret.res = Ok("true") /\ Len(ret.log) = 1

\* The arguments whose bases the class check reads, in the order of the
\* checks: both arguments of is_subclass, the second of is_instance.
ClassChecks(c) ==
    IF c.fn = "is_subclass"
    THEN <<[o |-> c.x, arg |-> "issubclass 1"], [o |-> c.y, arg |-> "issubclass 2"]>>
    ELSE <<[o |-> c.y, arg |-> "isinstance 2"]>>

\* The call came to the class check: no fast path, tuple or hook took it.
ReachesClassCheck(c) ==
    \/ /\ c.fn = "is_subclass"
       /\ ~TIsTuple(c.y) /\ ~(TIsType(c.x) /\ TIsType(c.y))
       /\ IF TClassOf(c.y) = TypeType THEN c.x # c.y ELSE CheckHook(c.y) = "none"
    \/ /\ c.fn = "is_instance"
       /\ TClassOf(c.x) # c.y /\ ~TIsTuple(c.y) /\ ~TIsType(c.y)
       /\ CheckHook(c.y) = "none"

FailedChecks(c) == SelectSeq(ClassChecks(c), LAMBDA k : GetBases(k.o).k = "err")

\* C14: when the class check of an is_subclass / is_instance argument
\* fails to read the bases attribute, the call fails: with the TypeError
\* that says this argument is not a class when the error's class is exactly
\* AttributeError, and with the error itself, unchanged, when its class is
\* any other, a subclass of AttributeError included.
C14_MasksOnlyAttributeError ==
    (ReachesClassCheck(ret) /\ FailedChecks(ret) # <<>>) =>
        LET k == FailedChecks(ret)[1]
            e == GetBases(k.o).v
        IN  /\ ret.res.k = "err"
            /\ e = "AttributeError" => ret.res.v = NotAClass(k.arg)
            /\ e # "AttributeError" => ret.res.v = e

\* The read of the first argument's bases failed with an error whose class
\* derives from AttributeError, and is_subclass returned that error.
C14_Witness ==
    /\ ret.fn = "is_subclass" /\ ret.x = T("abs", "nbs") /\ ret.y = T("cls", "U")
    /\ ret.res = Err("AttributeErrorSubclass")

\* o has no usable bases attribute: reading it fails with AttributeError,
\* or what is read is not a tuple.
LacksBases(o) ==
    LET b == GetBases(o)
    IN  \/ b.k = "err" /\ b.v = "AttributeError"
        \/ b.k = "ok" /\ ~b.tuple

\* Some object met on the way from x towards cls, x included, lacks usable
\* bases; the way is followed for at most n steps.
RECURSIVE ChainLacksBases(_, _, _)
ChainLacksBases(x, cls, n) ==
    /\ x # cls
    /\ \/ LacksBases(x)
       \/ /\ n > 0
          /\ GetBases(x).k = "ok" /\ GetBases(x).tuple
          /\ \E i \in 1..Len(GetBases(x).v) : ChainLacksBases(GetBases(x).v[i], cls, n - 1)

\* C15 as claimed: an is_subclass(x, cls) that comes to the walk of the
\* bases never fails with AttributeError; when x or an object reached from
\* x lacks usable bases it fails with the TypeError that names argument 1,
\* and when only cls lacks them with the TypeError that names argument 2.
C15_NoAttributeMissing_AsClaimed ==
    (ret.fn = "is_subclass" /\ ReachesClassCheck(ret)) =>
        /\ ret.res # Err("AttributeError")
        /\ (ChainLacksBases(ret.x, ret.y, MaxBasesChain) /\ GetBases(ret.y).k = "ok")
              => ret.res = Err(NotAClass("issubclass 1"))
        /\ (~ChainLacksBases(ret.x, ret.y, MaxBasesChain) /\ LacksBases(ret.y))
              => ret.res = Err(NotAClass("issubclass 2"))

----------------------------------------------------------------------------
(* Claims about item access.                                               *)

\* The call made exactly one hook call, this one, and returned its result.
OnlyCalled(c, hook, key) ==
    /\ Len(c.log) = 1
    /\ IsAttempt(c.log[1], hook, c.x, key, c.z)
    /\ c.res = c.log[1].res

\* What a hook that behaves as b says returns, found being its value.
ItemHookOutcome(b, found) == IF b = "err" THEN Err("HookError") ELSE Ok(found)

\* C16: get_item(o, key) on an object that implements the mapping and the
\* sequence protocol calls the mapping subscript hook with the key as it
\* is, and nothing else: the sequence hook is not called and the key is not
\* converted to an index; the hook's result, or its error, is the result.
C16_MappingBeforeSequence ==
    (/\ ret.fn = "get_item"
     /\ MappingTryProtocol(ret.x) /\ SequenceTryProtocol(ret.x)) =>
        /\ OnlyCalled(ret, "subscript", ret.y)
        /\ ret.res = ItemHookOutcome(ret.x.sub, "subscript")

\* The mapping hook failed on a key that is no index; the sequence hook,
\* which would have succeeded, was not tried.
C16_Witness ==
    /\ ret.fn = "get_item" /\ ret.y = "str"
    /\ ret.x.sub = "err" /\ ret.x.item = "ok"
    /\ ret.res = Err("HookError") /\ Len(ret.log) = 1

\* C17: set_item and del_item call the mapping assignment hook when it is
\* published (an exact dict is assigned by dict's own set_item / del_item,
\* directly); else the sequence assignment hook with the key converted to
\* an index, failing without a call when the key does not convert; else
\* they fail with "does not support item assignment" (set) or "item
\* deletion" (del), a class that publishes __class_getitem__ included:
\* that hook is never called.
C17_AssignmentHooks ==
    ret.fn \in {"set_item", "del_item"} =>
        LET o == ret.x
        IN  /\ IsExactDict(o) => (ret.log = <<>> /\ ret.res = DictItem(o.ass, "none"))
            /\ (~IsExactDict(o) /\ o.ass # "none") =>
                  /\ OnlyCalled(ret, "ass_subscript", ret.y)
                  /\ ret.res = ItemHookOutcome(o.ass, "none")
            /\ (~IsExactDict(o) /\ o.ass = "none" /\ o.sass # "none") =>
                  IF ret.y = "int"
                  THEN /\ OnlyCalled(ret, "ass_item", "index")
                       /\ ret.res = ItemHookOutcome(o.sass, "none")
                  ELSE ret.log = <<>> /\ ret.res = Err("TypeError: index")
            /\ (~IsExactDict(o) /\ o.ass = "none" /\ o.sass = "none") =>
                  /\ ret.log = <<>>
                  /\ ret.res = (IF ret.fn = "set_item" THEN NotAssignable ELSE NotDeletable)
            /\ \A i \in 1..Len(ret.log) : ret.log[i].who # "class_getitem"
            /\ ret.z = (IF ret.fn = "set_item" THEN "v1" ELSE "none")

\* Deleting an item of a class that publishes __class_getitem__ and no
\* assignment hook failed, and no hook was called.
C17_Witness ==
    /\ ret.fn = "del_item" /\ ret.x.kind = "class" /\ ret.x.cgi = "ok"
    /\ ret.x.ass = "none" /\ ret.x.sass = "none"
    /\ ret.res = NotDeletable /\ ret.log = <<>>

\* o implements neither the mapping nor the sequence protocol.
NeitherProtocol(o) == ~IsExactDict(o) /\ ~MappingTryProtocol(o) /\ ~SequenceTryProtocol(o)

\* o is a class that publishes a class-subscription hook.
PublishesClassGetitem(o) == IsClassObject(o) /\ o.cgi \in {"ok", "err"}

\* C18 as claimed: get_item on an object that implements neither protocol
\* calls the class-subscription hook exactly when the object is a class
\* that publishes it, and fails with "not subscriptable" in every other
\* case.
C18_ClassSubscription_AsClaimed ==
    (ret.fn = "get_item" /\ NeitherProtocol(ret.x)) =>
        IF PublishesClassGetitem(ret.x)
        THEN OnlyCalled(ret, "class_getitem", ret.y)
        ELSE ret.log = <<>> /\ ret.res = NotSubscriptable

\* C18: get_item on an object that implements neither protocol: type
\* itself gives a generic alias and no hook is looked up; another class
\* whose __class_getitem__ cannot be read fails with the error of the read;
\* a class that publishes __class_getitem__ is answered by that hook,
\* called with the key as it is; an object that is no class, or a class
\* without the hook, fails with "not subscriptable".
C18_ClassSubscription ==
    (ret.fn = "get_item" /\ NeitherProtocol(ret.x)) =>
        LET o == ret.x
        IN  CASE o.kind = "type" -> ret.log = <<>> /\ ret.res = Ok("GenericAlias")
              [] o.kind = "class" /\ o.cgi = "lookup_err" ->
                     ret.log = <<>> /\ ret.res = Err("LookupError")
              [] PublishesClassGetitem(o) ->
                     /\ OnlyCalled(ret, "class_getitem", ret.y)
                     /\ ret.res = ItemHookOutcome(o.cgi, "class_getitem")
              [] OTHER -> ret.log = <<>> /\ ret.res = NotSubscriptable

\* A class without mapping and sequence hooks was subscripted through its
\* __class_getitem__.
C18_Witness ==
    /\ ret.fn = "get_item" /\ NeitherProtocol(ret.x)
    /\ ret.x.kind = "class" /\ ret.x.cgi = "ok"
    /\ ret.res = Ok("class_getitem") /\ Len(ret.log) = 1

----------------------------------------------------------------------------
(* Claims about attribute access: the class attribute as a fallback, and   *)
(* deletion.                                                               *)

\* The instance storage has nothing under the name, or there is no storage.
NotInStorage(name) == ~inst.dict \/ DictGet(store, name) = "absent"

\* C19: get_attribute(o, n), when the class defines no data descriptor
\* under n and the instance storage holds nothing under n (or o has no
\* storage): a class attribute with a get hook is asked through that hook,
\* and the hook's outcome is the result; a class attribute without a get
\* hook is returned as it is, without a call; and when no class of the MRO
\* defines the name the call fails with AttributeError.
C19_ClassAttributeFallback ==
    /\ (GotN /\ inst.slots # "nogetset" /\ ~DefinesData(inst) /\ NotInStorage("n")) =>
           CASE FirstDef(inst) = NoAttr -> ret.log = <<>> /\ ret.res = Err("AttributeError")
             [] DefinesNonData(inst) ->
                    /\ Len(ret.log) = 1
                    /\ IsAttempt(ret.log[1], "descr_get", FirstDefId(inst), "inst", "class")
                    /\ ret.res = GetHookOutcome(inst)
             [] OTHER -> ret.log = <<>> /\ ret.res = Ok(FirstDefId(inst))
    /\ (/\ ret.fn = "get_attr" /\ ret.y = "m"
        /\ inst.slots # "nogetset" /\ NotInStorage("m")) =>
           (ret.log = <<>> /\ ret.res = Err("AttributeError"))

\* The class attribute has a get hook and no set hook, the object has
\* storage that holds nothing under the name, and the hook answered.
C19_Witness ==
    /\ GotN /\ DefinesNonData(inst) /\ inst.dict /\ store.n = "absent"
    /\ inst.own # NoAttr /\ ret.res = Ok("hv_own")

\* A del_attr(o, name) that came to the instance storage: the class
\* publishes the generic attribute-set slot, the object has storage, and
\* no class attribute under the name has a set hook.
DeletedFromStorage ==
    /\ ret.fn = "set_attr" /\ ret.z = "DELETE"
    /\ inst.slots = "generic" /\ inst.dict
    /\ ret.y = "n" => ~DefinesSetHook(inst)

\* C20: such a deletion of a name that the storage does not hold fails
\* with AttributeError, not with the KeyError of the storage, and leaves
\* the storage as it was; of a name that the storage holds, it succeeds,
\* the name is gone and the other name is as it was.
C20_DeleteFromStorage ==
    DeletedFromStorage =>
        IF DictGet(ret.s0, ret.y) = "absent"
        THEN ret.res = Err("AttributeError") /\ store = ret.s0
        ELSE /\ ret.res = Ok("unit")
             /\ DictGet(store, ret.y) = "absent"
             /\ \A other \in AttrNames \ {ret.y} : DictGet(store, other) = DictGet(ret.s0, other)

\* The deletion of a name that was never stored failed, while the storage
\* holds another name, which is still there.
C20_Witness ==
    /\ DeletedFromStorage /\ ret.y = "n"
    /\ ret.s0.n = "absent" /\ ret.s0.m = "v1"
    /\ ret.res = Err("AttributeError") /\ store.m = "v1"

----------------------------------------------------------------------------
(* Claims about hashing.                                                   *)

\* What the first class of o's MRO that says anything about hashing says,
\* and which class it is; object, the last one, always does.
FirstHashDef(o) ==
    CASE o.own # "inherit" -> [cls |-> "own", hash |-> o.own]
      [] o.parent # "inherit" -> [cls |-> "parent", hash |-> o.parent]
      [] o.grand # "inherit" -> [cls |-> "grand", hash |-> o.grand]
      [] OTHER -> [cls |-> "object", hash |-> "ok"]

\* C21: hash(o) on an object whose class-level __hash__ is disabled fails
\* with the TypeError "unhashable type" and calls no hash hook; otherwise
\* it calls, once, the hash hook of the first class of the MRO that
\* publishes one, and returns that hook's value or its error.
C21_HashDispatch ==
    ret.fn = "hash" =>
        LET d == FirstHashDef(ret.x)
        IN  IF d.hash = "disabled"
            THEN ret.res = Unhashable /\ ret.log = <<>>
            ELSE /\ Len(ret.log) = 1
                 /\ IsAttempt(ret.log[1], "hash_slot", d.cls, "none", "none")
                 /\ ret.res = ret.log[1].res
                 /\ ret.res = (IF d.hash = "ok" THEN Ok(d.cls) ELSE Err("HookError"))

\* The class disables hashing while its base publishes a hash hook: the
\* call failed and no hook was called.
C21_Witness ==
    /\ ret.fn = "hash" /\ ret.x.own = "disabled" /\ ret.x.parent = "ok"
    /\ ret.res = Unhashable /\ ret.log = <<>>

----------------------------------------------------------------------------
(* Claims about type relationships: termination.                           *)

\* C22 as claimed: every is_subclass(x, cls) that was started returns, with
\* a result or an error, whatever the graph of the bases is, a cycle of
\* single bases that does not hold cls included.
C22_WalkTerminates_AsClaimed ==
    (stack # <<>> /\ stack[1].fn = "is_subclass") ~> (stack = <<>>)

----------------------------------------------------------------------------
(* Claims about comparison: the order and the number of the attempts.      *)

\* The places in the log of the attempts of one kind, forward or reflected.
AttemptsOf(log, who) == {i \in 1..Len(log) : log[i].who = who}

\* The attempts a compare(a, b, op) has made so far, the last of which may
\* still be running: at most one forward and one reflected, each with its
\* own operands and operator; every attempt but the last returned
\* not-implemented; and, unless class(b) is a strict subclass of class(a),
\* the forward attempt is the first.
AttemptsInOrder(a, b, op, log) ==
    /\ Cardinality(AttemptsOf(log, "fwd")) <= 1
    /\ Cardinality(AttemptsOf(log, "refl")) <= 1
    /\ \A i \in 1..Len(log) :
          \/ IsAttempt(log[i], "fwd", a, b, op)
          \/ IsAttempt(log[i], "refl", b, a, Swapped(op))
    /\ \A i \in 1..(Len(log) - 1) : log[i].res = NotImplemented
    /\ (~StrictSub(a, b) /\ log # <<>>) => log[1].who = "fwd"

\* C23: in every compare(a, b, op), nested ones included, the forward
\* attempt is made at most once and the reflected attempt at most once;
\* when class(b) is no strict subclass of class(a) the forward attempt
\* comes first and the reflected one only after it returned
\* not-implemented; nothing is attempted after an attempt that returned a
\* definite result or an error; and an attempt's error is the error of the
\* compare, unchanged.
C23_AttemptsAtMostOnce ==
    /\ \A i \in 1..Len(stack) :
          stack[i].fn = "cmp" => AttemptsInOrder(stack[i].x, stack[i].y, stack[i].z, stack[i].log)
    /\ ret.fn = "cmp" =>
          /\ AttemptsInOrder(ret.x, ret.y, ret.z, ret.log)
          /\ (ret.log # <<>> /\ ret.log[Len(ret.log)].res.k \in {"ok", "err"}) =>
                 ret.res = ret.log[Len(ret.log)].res

\* The forward hook declined, the reflected hook failed, and its error is
\* what compare returned.
C23_Witness ==
    /\ ret.fn = "cmp" /\ ~StrictSub(ret.x, ret.y)
    /\ Len(ret.log) = 2
    /\ ret.log[1].who = "fwd" /\ ret.log[1].res = NotImplemented
    /\ ret.log[2].who = "refl" /\ ret.log[2].res = Err("HookError")
    /\ ret.res = Err("HookError")

----------------------------------------------------------------------------
(* Claims about attribute access: re-entrant hooks.                        *)

\* The descriptor hooks that are running.
AttrHooksRunning == {i \in 1..Len(stack) : stack[i].fn \in {"descr_get", "descr_set"}}

\* C24 as claimed: every hook that get_attribute and set_attribute call
\* runs inside the recursion guard, with the counter counted up; so no more
\* hooks nest than the limit allows, and a get_attribute on a data
\* descriptor whose get hook reads the same attribute again fails with
\* RecursionError.
C24_HooksUnderGuard_AsClaimed ==
    /\ \A i \in AttrHooksRunning : stack[i].g /\ depth > stack[i].d0
    /\ Cardinality(AttrHooksRunning) <= RecursionLimit
    /\ (GotN /\ DefinesSetHook(inst) /\ FirstDef(inst).get = "rec") =>
           ret.res = Err("RecursionError")

----------------------------------------------------------------------------
(* Claims about type relationships: the declared class.                    *)

\* An is_instance(o, cls) where cls is an ordinary class, one whose class
\* is type, and is not the class of o.
OfOrdinaryClass(c) ==
    /\ c.fn = "is_instance"
    /\ TClassOf(c.y) = TypeType
    /\ TClassOf(c.x) # c.y

\* C25: such an is_instance(o, cls) is true when class(o) is a subclass of
\* cls, and then o's __class__ is not read (a read that would fail does not
\* fail the call); otherwise an error of reading o's __class__ is the
\* result; otherwise the result is true exactly when the declared class is
\* a class, is not class(o), and is a subclass of cls.
C25_DeclaredClass ==
    OfOrdinaryClass(ret) =>
        LET o == ret.x
            cls == ret.y
            d == GetDeclaredClass(o)
        IN  IF TFastIsSubclass(TClassOf(o), cls) THEN ret.res = Ok("true")
            ELSE IF d.k = "err" THEN ret.res = d
            ELSE ret.res.k = "ok" /\
                 (ret.res.v = "true" <=>
                     (TIsType(d.v) /\ d.v # TClassOf(o) /\ TFastIsSubclass(d.v, cls)))

\* An instance of U that declares B as its class is an instance of A, the
\* base of B.
C25_Witness ==
    /\ OfOrdinaryClass(ret) /\ ret.x = T("obj", "p") /\ ret.y = T("cls", "A")
    /\ ret.res = Ok("true")

----------------------------------------------------------------------------
(* Claims about import.                                                    *)

\* The places of the stack where the code of a module is running.
CodeRunning == {i \in 1..Len(stack) : stack[i].fn = "run_code_obj"}

\* C26: import_code_obj puts the new module into sys.modules under
\* module_name before it runs the module's code: while the code runs, and
\* while the modules it imports run, sys.modules holds that module under
\* that name, so that the code's lookup of its own name finds it, and so
\* does the import made by a module it imports.  When the code fails,
\* import_code_obj returns the code's error and the module stays in
\* sys.modules; when it succeeds, that module is the result.
C26_RegisteredBeforeRun ==
    /\ \A i \in CodeRunning :
          /\ i > 1 /\ stack[i - 1].fn = "import_code_obj"
          /\ stack[i - 1].z # "absent"
          /\ SysModulesGet(sys_modules, stack[i].x) = stack[i - 1].z
    /\ (ret.fn = "import_code_obj" /\ ret.log # <<>>) =>
          /\ SysModulesGet(sys_modules, ret.x) = ret.z
          /\ ret.z \in {"a0", "a1", "b0", "b1"}
          /\ ret.log[1].res.k = "err" => ret.res = ret.log[1].res
          /\ ret.log[1].res.k # "err" => ret.res = Ok(ret.z)
          /\ ret.y = "err" => ret.res = Err("CodeError")
          /\ ret.y = "lookup_self" => ret.log[1].res = Ok(ret.z)
          /\ ret.y \in {"ok", "lookup_self", "import_peer"} => ret.res = Ok(ret.z)
    /\ (ret.fn = "import_code_obj" /\ ret.log = <<>>) =>
          (~sys_modules.ok /\ ret.res = Err("AttributeError"))

\* The code of module a failed; import_code_obj returned its error and a is
\* in sys.modules.
C26_Witness ==
    /\ ret.fn = "import_code_obj" /\ ret.x = "a" /\ ret.y = "err"
    /\ ret.res = Err("CodeError")
    /\ sys_modules.a = ret.z /\ sys_modules.a # "absent"

====
